---- MODULE Spec2Model ----
(***************************************************************************)
(* Model of the numeric core of alphasignal:                               *)
(*   src/backend/cpp_finance/finance_calc.cpp    (NPV, XIRR solver)        *)
(*   src/backend/cpp_indicators/indicators.cpp   (RSI, MACD, Bollinger     *)
(*                                                bands, rolling correl.)  *)
(*                                                                         *)
(* The C++ type `double` is modelled as IEEE-754 binary64 with             *)
(* round-to-nearest-even: a finite value is sign * m * 2^e with m either   *)
(* zero or a natural number of exactly MantBits bits.  Mantissas do not    *)
(* fit the model checker's integers, so naturals are sequences of limbs    *)
(* (little-endian, base 2^LimbBits).  +, -, *, / and sqrt are correctly    *)
(* rounded, as IEEE-754 requires; std::pow is modelled for whole-number    *)
(* exponents as the correctly rounded power.  The inputs are kept in the   *)
(* normal range, so overflow, subnormals and infinities do not arise;      *)
(* NaN does (sqrt of a negative rounding residue) and is modelled.         *)
(* Floating-point contraction (fused multiply-add) is not applied: that    *)
(* is the baseline x86-64 build.                                           *)
(***************************************************************************)
EXTENDS Integers, Sequences, FiniteSets, TLC

(***************************************************************************)
(* Natural numbers as limb sequences.  Every operator takes and returns    *)
(* sequences without leading zero limbs; <<>> is zero.                     *)
(***************************************************************************)
LimbBits == 14
Base == 2^LimbBits
MantBits == 53

Max(a, b) == IF a >= b THEN a ELSE b
Min(a, b) == IF a <= b THEN a ELSE b

Limb(a, i) == IF i >= 1 /\ i <= Len(a) THEN a[i] ELSE 0

\* TRUE, once v has been computed: an operand is computed before it is used
Done(v) == v = v

Zeros(n) == SubSeq(<<0, 0, 0, 0, 0, 0, 0, 0, 0, 0, 0, 0>>, 1, n)

\* the index of the highest nonzero limb, 0 if there is none
Top(a) ==
  IF \A i \in 1..Len(a) : a[i] = 0 THEN 0
  ELSE CHOOSE i \in 1..Len(a) : a[i] # 0 /\ \A j \in (i + 1)..Len(a) : a[j] = 0

\* without leading zero limbs
NNorm(a) == SubSeq(a, 1, Top(a))

\* Columns c below 2^31 = 8 * Base^2 become limbs in three rounds.  Spread hands
\* every column's excess to the next two places (the result is at most 2 * Base + 5),
\* Hand hands the excess of that on (at most Base + 1), and what is left are
\* carries of 1, which Ripple propagates.
Spread(c) ==
  [i \in 1..(Len(c) + 3) |-> (Limb(c, i) % Base) + ((Limb(c, i - 1) \div Base) % Base)
                             + (Limb(c, i - 2) \div (Base * Base))] \o <<>>

Hand(u) == [i \in 1..Len(u) |-> (u[i] % Base) + (Limb(u, i - 1) \div Base)] \o <<>>

CarryIn(v, i) ==
  IF \E j \in 1..(i - 1) : v[j] >= Base /\ \A k \in (j + 1)..(i - 1) : v[k] = Base - 1
  THEN 1 ELSE 0

Ripple(v) == [i \in 1..Len(v) |-> (v[i] + CarryIn(v, i)) % Base] \o <<>>

Carry(c) == IF Done(c) THEN NNorm(Ripple(Hand(Spread(c)))) ELSE <<>>

NFromInt(n) == Carry(<<n>>)

NAdd(a, b) ==
  Carry([i \in 1..Max(Len(a), Len(b)) |-> Limb(a, i) + Limb(b, i)] \o <<>>)

BorrowIn(d, i) ==
  IF \E j \in 1..(i - 1) : d[j] < 0 /\ \A k \in (j + 1)..(i - 1) : d[k] = 0
  THEN 1 ELSE 0

Borrow(d) == NNorm([i \in 1..Len(d) |-> (d[i] - BorrowIn(d, i)) % Base] \o <<>>)

\* a - b for a >= b
NSub(a, b) == Borrow([i \in 1..Len(a) |-> a[i] - Limb(b, i)] \o <<>>)

\* -1, 0, 1 as a < b, a = b, a > b
NCmp(a, b) ==
  IF Len(a) < Len(b) THEN -1
  ELSE IF Len(a) > Len(b) THEN 1
  ELSE IF \A i \in 1..Len(a) : a[i] = b[i] THEN 0
  ELSE IF \E i \in 1..Len(a) : a[i] < b[i] /\ \A j \in (i + 1)..Len(a) : a[j] = b[j] THEN -1
  ELSE 1

\* x * y for x of at most 4 limbs
MulShort(x, y) ==
  Carry([k \in 1..(Len(x) + Len(y) - 1) |->
           Limb(x, 1) * Limb(y, k) + Limb(x, 2) * Limb(y, k - 1)
           + Limb(x, 3) * Limb(y, k - 2) + Limb(x, 4) * Limb(y, k - 3)] \o <<>>)

\* a * b, where the shorter operand has at most 4 limbs (a mantissa, or a 56-bit root)
NMul(a, b) ==
  IF Len(a) = 0 \/ Len(b) = 0 THEN <<>>
  ELSE IF Len(a) <= Len(b) THEN MulShort(a, b)
  ELSE MulShort(b, a)

NMulSmall(a, k) == Carry([i \in 1..Len(a) |-> a[i] * k] \o <<>>)

\* a * 2^s
NShl(a, s) ==
  IF Len(a) = 0 THEN <<>>
  ELSE Zeros(s \div LimbBits) \o NMulSmall(a, 2^(s % LimbBits))

\* floor(a / 2^s)
NShr(a, s) ==
  LET q == s \div LimbBits
      p == 2^(s % LimbBits)
  IN NNorm([i \in 1..Max(Len(a) - q, 0) |->
              (a[q + i] \div p) + (Limb(a, q + i + 1) % p) * (Base \div p)] \o <<>>)

\* whether 2^s divides a
NLowZero(a, s) ==
  /\ \A i \in 1..Min(s \div LimbBits, Len(a)) : a[i] = 0
  /\ Limb(a, (s \div LimbBits) + 1) % (2^(s % LimbBits)) = 0

NBit(a, i) == (Limb(a, (i \div LimbBits) + 1) \div (2^(i % LimbBits))) % 2

BitLen(x) == IF x = 0 THEN 0 ELSE CHOOSE k \in 1..31 : 2^(k - 1) <= x /\ (k = 31 \/ x < 2^k)

NBits(a) == IF Len(a) = 0 THEN 0 ELSE (Len(a) - 1) * LimbBits + BitLen(a[Len(a)])

\* One quotient limb of r / v, for r < v * Base and v's top limb at least Base / 2:
\* the estimate est from the leading limbs is at most 2 too large; p = v * est.
QPick(r, v, est, p) ==
  IF NCmp(p, r) <= 0 THEN est
  ELSE IF NCmp(NSub(p, v), r) <= 0 THEN est - 1
  ELSE est - 2

QFix(r, v, est) == QPick(r, v, est, NMulSmall(v, est))

QDigit(r, v) ==
  IF NCmp(r, v) < 0 THEN 0
  ELSE IF Len(r) = Len(v) THEN 1
  ELSE QFix(r, v, Min(Base - 1, (r[Len(v) + 1] * Base + r[Len(v)]) \div v[Len(v)]))

\* One step of long division.  st = <<quotient limbs so far, remainder>>: limb k of
\* u comes down to the remainder r1, and q is the next quotient limb.
DivSub(v, quot, r1, q) == <<<<q>> \o quot, NSub(r1, NMulSmall(v, q))>>

DivTake(v, quot, r1) == DivSub(v, quot, r1, QDigit(r1, v))

DivStep(u, v, k, st) == DivTake(v, st[1], NNorm(<<u[k]>> \o st[2]))

RECURSIVE DivFrom(_, _, _, _)
DivFrom(u, v, k, st) ==
  IF k = 0 \/ ~Done(st) THEN st
  ELSE DivFrom(u, v, k - 1, DivStep(u, v, k, st))

\* long division of u by v (top limb at least Base / 2): <<quotient limbs, remainder>>
LongDiv(u, v) ==
  IF Len(u) < Len(v) THEN <<<<>>, u>>
  ELSE DivFrom(u, v, Len(u) - Len(v) + 1, <<<<>>, SubSeq(u, Len(u) - Len(v) + 2, Len(u))>>)

DivResult(res) == <<NNorm(res[1]), Len(res[2]) = 0>>

\* the shift that brings b's top limb to at least Base / 2
Slack(b) == Len(b) * LimbBits - NBits(b)

\* <<floor(a / b), whether b divides a>> for b > 0
NDiv(a, b) == DivResult(LongDiv(NShl(a, Slack(b)), NShl(b, Slack(b))))

\* floor(sqrt(a)) by Newton's iteration from above
RECURSIVE SqrtIter(_, _)
SqrtNext(a, x, y) == IF NCmp(y, x) < 0 THEN SqrtIter(a, y) ELSE x

SqrtIter(a, x) == SqrtNext(a, x, NShr(NAdd(x, NDiv(a, x)[1]), 1))

NSqrt(a) == IF Len(a) = 0 THEN <<>> ELSE SqrtIter(a, NShl(<<1>>, (NBits(a) + 1) \div 2))

(***************************************************************************)
(* double: IEEE-754 binary64, round to nearest, ties to even               *)
(***************************************************************************)
NaN == [nan |-> TRUE, s |-> 0, m |-> <<>>, e |-> 0]
Zero == [nan |-> FALSE, s |-> 0, m |-> <<>>, e |-> 0]

IsNaN(x) == x.nan
IsZero(x) == ~x.nan /\ Len(x.m) = 0

Double(s, m, e) == [nan |-> FALSE, s |-> s, m |-> m, e |-> e]

\* a rounded-up mantissa r may have MantBits + 1 bits: it is then a power of two
Renorm(s, r, E) ==
  IF NBits(r) > MantBits THEN Double(s, NShr(r, 1), E + 1) ELSE Double(s, r, E)

\* q with the bits below it given by half (the first) and low (any of the rest)
RoundUp(s, q, E, half, low) ==
  Renorm(s, IF half /\ (low \/ q[1] % 2 = 1) THEN NAdd(q, <<1>>) ELSE q, E)

\* M has sh bits more than a mantissa
RoundTo(s, M, E, sticky, sh) ==
  IF sh <= 0 THEN Double(s, NShl(M, -sh), E + sh)
  ELSE RoundUp(s, NShr(M, sh), E + sh, NBit(M, sh - 1) = 1, ~NLowZero(M, sh - 1) \/ sticky)

\* the double nearest to (-1)^s * (M + f) * 2^E, where 0 < f < 1 if sticky, else f = 0;
\* a sticky M has more than MantBits + 1 bits
Round(s, M, E, sticky) ==
  IF Len(M) = 0 THEN Zero ELSE RoundTo(s, M, E, sticky, NBits(M) - MantBits)

\* conversion of an int (exact)
FromInt(n) == Round(IF n < 0 THEN 1 ELSE 0, NFromInt(IF n < 0 THEN -n ELSE n), 0, FALSE)

FNeg(x) == IF x.nan \/ Len(x.m) = 0 THEN x ELSE [x EXCEPT !.s = 1 - x.s]
FAbs(x) == IF x.nan THEN x ELSE [x EXCEPT !.s = 0]

\* -1, 0, 1 as |x| < |y|, |x| = |y|, |x| > |y| (finite operands)
MagCmp(x, y) ==
  IF Len(x.m) = 0 THEN (IF Len(y.m) = 0 THEN 0 ELSE -1)
  ELSE IF Len(y.m) = 0 THEN 1
  ELSE IF x.e < y.e THEN -1
  ELSE IF x.e > y.e THEN 1
  ELSE NCmp(x.m, y.m)

\* x < y; false when either is NaN
FLt(x, y) ==
  /\ ~x.nan /\ ~y.nan
  /\ IF x.s = 1 /\ y.s = 0 THEN ~(Len(x.m) = 0 /\ Len(y.m) = 0)
     ELSE IF x.s = 0 /\ y.s = 1 THEN FALSE
     ELSE IF x.s = 0 THEN MagCmp(x, y) < 0
     ELSE MagCmp(y, x) < 0

FGt(x, y) == FLt(y, x)
FLe(x, y) == ~x.nan /\ ~y.nan /\ ~FLt(y, x)
FEq(x, y) == FLe(x, y) /\ FLe(y, x)

\* the magnitude and the sign of (-1)^sx * a + (-1)^sy * b
SumMag(sx, a, sy, b) ==
  IF sx = sy THEN NAdd(a, b)
  ELSE IF NCmp(a, b) >= 0 THEN NSub(a, b)
  ELSE NSub(b, a)

SumSign(sx, a, sy, b) == IF sx = sy \/ NCmp(a, b) > 0 THEN sx ELSE sy

AddAligned(sx, a, sy, b, E) ==
  IF Done(<<a, b>>) THEN Round(SumSign(sx, a, sy, b), SumMag(sx, a, sy, b), E, FALSE) ELSE NaN

\* x + y.  An addend below an eighth of the other's last place cannot change it.
FAdd(x, y) ==
  IF x.nan \/ y.nan THEN NaN
  ELSE IF Len(x.m) = 0 THEN y
  ELSE IF Len(y.m) = 0 THEN x
  ELSE IF x.e - y.e >= MantBits + 3 THEN x
  ELSE IF y.e - x.e >= MantBits + 3 THEN y
  ELSE AddAligned(x.s, NShl(x.m, x.e - Min(x.e, y.e)),
                  y.s, NShl(y.m, y.e - Min(x.e, y.e)), Min(x.e, y.e))

FSub(x, y) == FAdd(x, FNeg(y))

FMul(x, y) ==
  IF x.nan \/ y.nan THEN NaN
  ELSE IF Len(x.m) = 0 \/ Len(y.m) = 0 THEN Zero
  ELSE Round((x.s + y.s) % 2, NMul(x.m, y.m), x.e + y.e, FALSE)

DivRound(s, d, E) == IF Done(d) THEN Round(s, d[1], E, ~d[2]) ELSE NaN

\* x / y for y /= 0
FDiv(x, y) ==
  IF x.nan \/ y.nan \/ Len(y.m) = 0 THEN NaN
  ELSE IF Len(x.m) = 0 THEN Zero
  ELSE DivRound((x.s + y.s) % 2, NDiv(NShl(x.m, MantBits + 3), y.m),
                x.e - y.e - (MantBits + 3))

SqrtRound(N, R, E) == IF Done(R) THEN Round(0, R, E, NCmp(NMul(R, R), N) # 0) ELSE NaN

SqrtOf(N, E) == IF Done(N) THEN SqrtRound(N, NSqrt(N), E) ELSE NaN

\* the shift that makes the exponent even and the root 56 bits long
SqrtShift(x) == MantBits + 5 + ((x.e + MantBits + 5) % 2)

\* std::sqrt
FSqrt(x) ==
  IF x.nan THEN NaN
  ELSE IF Len(x.m) = 0 THEN Zero
  ELSE IF x.s = 1 THEN NaN
  ELSE SqrtOf(NShl(x.m, SqrtShift(x)), (x.e - SqrtShift(x)) \div 2)

\* the whole number a double holds (a non-negative whole number below 2^31)
RECURSIVE NToInt(_, _)
NToInt(a, i) == IF i > Len(a) THEN 0 ELSE a[i] + Base * NToInt(a, i + 1)

ToInt(x) == IF Len(x.m) = 0 THEN 0 ELSE NToInt(NShr(x.m, -x.e), 1)

IsWhole(x) ==
  ~x.nan /\ (Len(x.m) = 0 \/ (x.s = 0 /\ x.e <= 0 /\ x.e > -MantBits /\ NLowZero(x.m, -x.e)))

RECURSIVE NPow(_, _)
NPow(a, k) == IF k = 0 THEN <<1>> ELSE NMul(a, NPow(a, k - 1))

\* std::pow(b, y) for b > 0 and y a whole number: the correctly rounded power
FPow(b, y) ==
  IF b.nan \/ y.nan THEN NaN
  ELSE Round(0, NPow(b.m, ToInt(y)), b.e * ToInt(y), FALSE)

\* std::min and std::max as the library defines them
StdMin(a, b) == IF FLt(b, a) THEN b ELSE a
StdMax(a, b) == IF FLt(a, b) THEN b ELSE a

(***************************************************************************)
(* finance_calc.cpp                                                        *)
(***************************************************************************)
One == FromInt(1)
Two == FromInt(2)

\* the literal 365.25
DaysPerYear == FDiv(FromInt(1461), FromInt(4))

MAX_NEWTON_ITERATIONS == 50
MAX_BINARY_ITERATIONS == 100
\* the literals 1e-7, -0.999, 10.0 and 1e-10
TOLERANCE == FDiv(One, FromInt(10000000))
MIN_RATE == FNeg(FDiv(FromInt(999), FromInt(1000)))
MAX_RATE == FromInt(10)
FLAT_SLOPE == FDiv(One, FMul(FromInt(100000), FromInt(100000)))

CashFlow(days, amt) == [days_from_start |-> days, amount |-> amt]

\* line 26-27: cf.amount / std::pow(1.0 + rate, years)
Discount(amount, base, years) ==
  IF Done(<<base, years>>) THEN FDiv(amount, FPow(base, years)) ELSE NaN

\* lines 21-30: npv holds the sum of the terms before cash flow k
RECURSIVE NpvFrom(_, _, _, _)
NpvFrom(cfs, rate, k, npv) ==
  IF k > Len(cfs) \/ ~Done(npv) THEN npv
  ELSE NpvFrom(cfs, rate, k + 1,
               FAdd(npv, Discount(cfs[k].amount, FAdd(One, rate),
                                  FDiv(cfs[k].days_from_start, DaysPerYear))))

calculate_npv(cfs, rate) == NpvFrom(cfs, rate, 1, Zero)

\* line 41-42: -years * cf.amount / std::pow(1.0 + rate, years + 1.0)
Slope(amount, base, years) ==
  IF Done(<<base, years>>)
  THEN FDiv(FMul(FNeg(years), amount), FPow(base, FAdd(years, One)))
  ELSE NaN

\* lines 36-45: derivative holds the sum of the terms before cash flow k
RECURSIVE DerivFrom(_, _, _, _)
DerivFrom(cfs, rate, k, derivative) ==
  IF k > Len(cfs) \/ ~Done(derivative) THEN derivative
  ELSE DerivFrom(cfs, rate, k + 1,
                 FAdd(derivative, Slope(cfs[k].amount, FAdd(One, rate),
                                        FDiv(cfs[k].days_from_start, DaysPerYear))))

calculate_npv_derivative(cfs, rate) == DerivFrom(cfs, rate, 1, Zero)

(***************************************************************************)
(* State.  calculate_xirr runs as a state machine with one action per loop *)
(* iteration; so does each indicator of indicators.cpp.                    *)
(***************************************************************************)
VARIABLES
  cashflows,      \* argument: sequence of CashFlow
  initial_guess,  \* argument
  pc,             \* "start", "newton", "binary_init", "binary", "done"
  rate,           \* Newton estimate
  newton_i,       \* loop counter of the Newton loop
  low, high, npv_low, npv_high,
  binary_i,       \* loop counter of the bisection loop
  result,         \* the value returned (meaningful when pc = "done")
  exit,           \* which return statement returned it
  fn,             \* the indicator called: "rsi", "macd", "bollinger", "correlation"
  ipc,            \* the place in its code; "returned" or "fault" at the end
  ptr, ptr_y,     \* the input arrays (ptr_x is ptr)
  arg,            \* the scalar arguments, by name
  buf,            \* the std::vector locals, by name; the returned arrays are copies
  loc,            \* the scalar locals, by name
  i,              \* the loop index
  stray           \* whether an access outside an array or vector has happened

xirrVars == <<cashflows, initial_guess, pc, rate, newton_i, low, high,
              npv_low, npv_high, binary_i, result, exit>>

indVars == <<fn, ipc, ptr, ptr_y, arg, buf, loc, i, stray>>

vars == <<xirrVars, indVars>>

(***************************************************************************)
(* calculate_xirr                                                          *)
(***************************************************************************)
Return(v, how) ==
  /\ pc' = "done"
  /\ result' = v
  /\ exit' = how

\* a size check that lets a single cash flow through
TooFewEmpty(cfs) == Len(cfs) < 1

\* line 58: cashflows.size() < 2
TooFew(cfs) == Len(cfs) < 2

\* a loop test that admits one pass too many
NewtonOneMore(k) == k <= MAX_NEWTON_ITERATIONS

\* line 65: the Newton loop's test
NewtonContinues(k) == k < MAX_NEWTON_ITERATIONS

\* a clamp that forgets the upper bound
ClampBelow(new_rate) == StdMax(MIN_RATE, new_rate)

\* line 87: std::max(MIN_RATE, std::min(MAX_RATE, new_rate))
Clamp(new_rate) == StdMax(MIN_RATE, StdMin(MAX_RATE, new_rate))

\* a bracket test that never rejects
NoBracketNever(nl, nh) == FALSE

\* line 110: npv_low * npv_high > 0
NoBracket(nl, nh) == FGt(FMul(nl, nh), Zero)

\* a width test that never succeeds
NarrowNever(lo, hi) == FALSE

\* line 131: high - low < TOLERANCE
Narrow(lo, hi) == FLt(FSub(hi, lo), TOLERANCE)

\* lines 58-63
Enter ==
  /\ pc = "start"
  /\ IF TooFew(cashflows)
     THEN /\ Return(NaN, "too_few")
          /\ UNCHANGED rate
     ELSE /\ pc' = "newton"
          /\ rate' = initial_guess
          /\ UNCHANGED <<result, exit>>
  /\ UNCHANGED <<cashflows, initial_guess, newton_i, low, high, npv_low, npv_high, binary_i>>
  /\ UNCHANGED indVars

\* lines 65-100: the loop test and one pass through the loop body
NewtonStep ==
  /\ pc = "newton"
  /\ IF ~NewtonContinues(newton_i)
     THEN /\ pc' = "binary_init"
          /\ UNCHANGED <<rate, newton_i, result, exit>>
     ELSE \E npv \in {calculate_npv(cashflows, rate)} :
          \E derivative \in {calculate_npv_derivative(cashflows, rate)} :
            IF /\ FLt(FAbs(npv), TOLERANCE)
               /\ FGt(rate, MIN_RATE) /\ FLt(rate, MAX_RATE)
            THEN /\ Return(rate, "newton_npv")
                 /\ UNCHANGED <<rate, newton_i>>
            ELSE IF FLt(FAbs(derivative), FLAT_SLOPE)
            THEN /\ pc' = "binary_init"
                 /\ UNCHANGED <<rate, newton_i, result, exit>>
            ELSE \E step \in {FDiv(npv, derivative)} :
                 \E new_rate \in {Clamp(FSub(rate, step))} :
                   IF FLt(FAbs(FSub(new_rate, rate)), TOLERANCE)
                   THEN /\ rate' = new_rate
                        /\ UNCHANGED newton_i
                        /\ \E npv_new \in {calculate_npv(cashflows, new_rate)} :
                             IF FLt(FAbs(npv_new), TOLERANCE)
                             THEN Return(new_rate, "newton_step")
                             ELSE /\ pc' = "binary_init"
                                  /\ UNCHANGED <<result, exit>>
                   ELSE /\ rate' = new_rate
                        /\ newton_i' = newton_i + 1
                        /\ UNCHANGED <<pc, result, exit>>
  /\ UNCHANGED <<cashflows, initial_guess, low, high, npv_low, npv_high, binary_i>>
  /\ UNCHANGED indVars

\* lines 103-113
BinaryInit ==
  /\ pc = "binary_init"
  /\ \E nl \in {calculate_npv(cashflows, MIN_RATE)} :
     \E nh \in {calculate_npv(cashflows, MAX_RATE)} :
       /\ low' = MIN_RATE
       /\ high' = MAX_RATE
       /\ npv_low' = nl
       /\ npv_high' = nh
       /\ IF NoBracket(nl, nh)
          THEN Return(NaN, "no_bracket")
          ELSE /\ pc' = "binary"
               /\ UNCHANGED <<result, exit>>
  /\ UNCHANGED <<cashflows, initial_guess, rate, newton_i, binary_i>>
  /\ UNCHANGED indVars

\* lines 115-136: the loop test and one pass through the loop body
BinaryStep ==
  /\ pc = "binary"
  /\ IF binary_i >= MAX_BINARY_ITERATIONS
     THEN /\ Return(NaN, "exhausted")
          /\ UNCHANGED <<low, high, npv_low, npv_high, binary_i>>
     ELSE \E mid \in {FDiv(FAdd(low, high), Two)} :
          \E npv_mid \in {calculate_npv(cashflows, mid)} :
            IF FLt(FAbs(npv_mid), TOLERANCE)
            THEN /\ Return(mid, "binary_npv")
                 /\ UNCHANGED <<low, high, npv_low, npv_high, binary_i>>
            ELSE /\ IF FLt(FMul(npv_mid, npv_low), Zero)
                    THEN /\ high' = mid
                         /\ npv_high' = npv_mid
                         /\ UNCHANGED <<low, npv_low>>
                    ELSE /\ low' = mid
                         /\ npv_low' = npv_mid
                         /\ UNCHANGED <<high, npv_high>>
                 /\ IF Narrow(low', high')
                    THEN /\ Return(FDiv(FAdd(low', high'), Two), "binary_width")
                         /\ UNCHANGED binary_i
                    ELSE /\ binary_i' = binary_i + 1
                         /\ UNCHANGED <<pc, result, exit>>
  /\ UNCHANGED <<cashflows, initial_guess, rate, newton_i>>
  /\ UNCHANGED indVars

\* the year-end dates 0, 365.25, 730.5, ... as days_from_start
YearEnd(k) == FMul(FromInt(k), DaysPerYear)

\* cash flows one year apart with the given whole amounts
Annual(amounts) == [k \in 1..Len(amounts) |-> CashFlow(YearEnd(k - 1), FromInt(amounts[k]))]

\* the smallest admissible discount base, as an amount: its present value at MIN_RATE is 1
Sliver == FAdd(One, MIN_RATE)

\* The cash-flow sequences tried: none, one flow, a loan repaid with interest, two
\* sequences without a root in the admissible domain, sequences with roots at 0 and 1,
\* at 19, at -0.79.. and -0.25, and at MIN_RATE itself.
CashflowInputs ==
  { <<>>,
    Annual(<<-1000>>),
    Annual(<<-1000, 1100>>),
    Annual(<<100, 50>>),
    Annual(<<-4, 1, -4>>),
    Annual(<<1, -3, 2>>),
    Annual(<<-1, 20>>),
    Annual(<<-4, -4, 1>>),
    Annual(<<-4, -1, 3>>),
    <<CashFlow(YearEnd(0), FromInt(-1)), CashFlow(YearEnd(1), Sliver)>> }

\* initial guesses: the default 0.1, and two beyond MAX_RATE
GuessInputs == { FDiv(One, FromInt(10)), FromInt(10000), FromInt(1000000) }

NoCall ==
  /\ fn = "none" /\ ipc = "idle"
  /\ ptr = <<>> /\ ptr_y = <<>>
  /\ arg = <<>> /\ buf = <<>> /\ loc = <<>>
  /\ i = 0
  /\ stray = FALSE

XirrInit ==
  /\ cashflows \in CashflowInputs
  /\ initial_guess \in GuessInputs
  /\ pc = "start"
  /\ rate = Zero
  /\ newton_i = 0
  /\ low = Zero /\ high = Zero /\ npv_low = Zero /\ npv_high = Zero
  /\ binary_i = 0
  /\ result = Zero
  /\ exit = "none"
  /\ NoCall

XirrNext == Enter \/ NewtonStep \/ BinaryInit \/ BinaryStep

SpecXirr == XirrInit /\ [][XirrNext]_vars

\* a call in progress: a statement of calculate_xirr is still to be executed
Running == pc \in {"start", "newton", "binary_init", "binary"}

\* The solver is a sequential function: a call in progress takes its next step.
\* This is weak fairness of XirrNext, []<>~ENABLED <<XirrNext>>_vars \/
\* []<><<XirrNext>>_vars, with ENABLED <<XirrNext>>_vars written out: each action is
\* its pc guard followed by an IF-THEN-ELSE that assigns every variable and changes
\* pc or a loop counter, so a step is enabled exactly when the call is Running.
XirrFairness == []<>(~Running) \/ []<><<XirrNext>>_vars

SpecXirrFair == SpecXirr /\ XirrFairness

(***************************************************************************)
(* indicators.cpp                                                          *)
(***************************************************************************)
\* the longest input array and the longest lookback tried
MaxLen == 3
MaxPeriod == 3

\* the prices tried: 10, 11 and 10.6
PriceValues == {FromInt(10), FromInt(11), FDiv(FromInt(53), FromInt(5))}

\* the observations tried for rolling_correlation: large, and close to each other
XValues == {FromInt(100000001), FromInt(100000005)}
YValues == {FromInt(100000000), FromInt(100000004)}

\* std::vector<double>(n, 0.0)
Fill(n) == [k \in 1..n |-> Zero]

\* element k of an array or vector; C++ counts from 0
At(v, k) == v[k + 1]

\* whether element k exists
Inside(v, k) == k >= 0 /\ k < Len(v)

\* What a read outside an array can deliver: whatever the neighbouring memory
\* holds.  A zero, a one and a NaN stand for it.
StrayValues == {Zero, One, NaN}

\* An access outside an array is undefined behaviour: the call is killed,
\* or it goes on with whatever it read and with whatever it has overwritten.
Fault ==
  /\ ipc' = "fault"
  /\ stray' = TRUE
  /\ UNCHANGED <<fn, ptr, ptr_y, arg, buf, loc, i>>

Idle == ipc = "idle"

\* ---- calculate_rsi, lines 10-52 ----

\* lines 11-17
RsiEnter ==
  /\ Idle
  /\ \E prices \in UNION {[1..n -> PriceValues] : n \in 0..MaxLen} :
     \E period \in 1..MaxPeriod :
       /\ ptr' = prices
       /\ arg' = [period |-> period]
       /\ buf' = [rsi |-> Fill(Len(prices)), gains |-> Fill(Len(prices)),
                  losses |-> Fill(Len(prices))]
  /\ fn' = "rsi"
  /\ ipc' = "rsi_changes"
  /\ i' = 1
  /\ loc' = [avg_gain |-> Zero, avg_loss |-> Zero]
  /\ UNCHANGED <<ptr_y, stray>>
  /\ UNCHANGED xirrVars

\* lines 20-27, and line 30 when the loop ends
RsiChange ==
  /\ ipc = "rsi_changes"
  /\ IF i < Len(ptr)
     THEN \E change \in {FSub(At(ptr, i), At(ptr, i - 1))} :
            /\ buf' = IF FGt(change, Zero)
                      THEN [buf EXCEPT !.gains[i + 1] = change]
                      ELSE [buf EXCEPT !.losses[i + 1] = FNeg(change)]
            /\ i' = i + 1
            /\ UNCHANGED ipc
     ELSE /\ ipc' = "rsi_seed"
          /\ i' = 1
          /\ UNCHANGED buf
  /\ UNCHANGED <<fn, ptr, ptr_y, arg, loc, stray>>
  /\ UNCHANGED xirrVars

\* lines 31-36: gains[i] and losses[i] are read for i = 1..period, whatever n is
RsiSeed ==
  /\ ipc = "rsi_seed"
  /\ IF i <= arg.period
     THEN IF Inside(buf.gains, i)
          THEN /\ loc' = [avg_gain |-> FAdd(loc.avg_gain, At(buf.gains, i)),
                          avg_loss |-> FAdd(loc.avg_loss, At(buf.losses, i))]
               /\ i' = i + 1
               /\ UNCHANGED <<fn, ipc, ptr, ptr_y, arg, buf, stray>>
          ELSE \/ Fault
               \/ /\ \E g \in StrayValues, l \in StrayValues :
                       loc' = [avg_gain |-> FAdd(loc.avg_gain, g),
                               avg_loss |-> FAdd(loc.avg_loss, l)]
                  /\ i' = i + 1
                  /\ stray' = TRUE
                  /\ UNCHANGED <<fn, ipc, ptr, ptr_y, arg, buf>>
     ELSE /\ loc' = [avg_gain |-> FDiv(loc.avg_gain, FromInt(arg.period)),
                     avg_loss |-> FDiv(loc.avg_loss, FromInt(arg.period))]
          /\ ipc' = "rsi_wilder"
          /\ i' = arg.period
          /\ UNCHANGED <<fn, ptr, ptr_y, arg, buf, stray>>
  /\ UNCHANGED xirrVars

\* lines 31-34 as one value: 0.0 + v[1] + ... + v[period], added in that order
RECURSIVE SeedSum(_, _, _, _)
SeedSum(v, k, period, sum) ==
  IF k > period \/ ~Done(sum) THEN sum
  ELSE SeedSum(v, k + 1, period, FAdd(sum, At(v, k)))

\* lines 31-36 as one value: the simple mean of v[1..period]
SeedMean(v, period) == FDiv(SeedSum(v, 1, period, Zero), FromInt(period))

\* lines 40-41: ((avg * (period - 1)) + current) / period
Wilder(avg, current, period) ==
  FDiv(FAdd(FMul(avg, FromInt(period - 1)), current), FromInt(period))

\* the value without the 1 + in the denominator
RsiValueNoOne(avg_gain, avg_loss) ==
  IF FEq(avg_loss, Zero) THEN FromInt(100)
  ELSE FSub(FromInt(100), FDiv(FromInt(100), FDiv(avg_gain, avg_loss)))

\* lines 43-48
RsiValue(avg_gain, avg_loss) ==
  IF FEq(avg_loss, Zero) THEN FromInt(100)
  ELSE FSub(FromInt(100), FDiv(FromInt(100), FAdd(One, FDiv(avg_gain, avg_loss))))

\* lines 39-51: the loop starts at i = period
RsiWilder ==
  /\ ipc = "rsi_wilder"
  /\ IF i < Len(ptr)
     THEN \E avg_gain \in {Wilder(loc.avg_gain, At(buf.gains, i), arg.period)} :
          \E avg_loss \in {Wilder(loc.avg_loss, At(buf.losses, i), arg.period)} :
          \E value \in {RsiValue(avg_gain, avg_loss)} :
            /\ loc' = [avg_gain |-> avg_gain, avg_loss |-> avg_loss]
            /\ buf' = [buf EXCEPT !.rsi[i + 1] = value]
            /\ i' = i + 1
            /\ UNCHANGED ipc
     ELSE /\ ipc' = "returned"
          /\ UNCHANGED <<buf, loc, i>>
  /\ UNCHANGED <<fn, ptr, ptr_y, arg, stray>>
  /\ UNCHANGED xirrVars

\* ---- calculate_macd, lines 61-106 ----

\* lines 78-80: 2.0 / (period + 1)
Alpha(period) == FDiv(Two, FromInt(period + 1))

\* lines 88, 89, 96: alpha * x + (1 - alpha) * previous
Ema(alpha, x, previous) == FAdd(FMul(alpha, x), FMul(FSub(One, alpha), previous))

\* the periods tried: fast_period <= slow_period, signal_period = fast_period
MacdPeriods ==
  {p \in (1..MaxPeriod) \X (1..MaxPeriod) \X (1..MaxPeriod) : p[1] <= p[2] /\ p[3] = p[1]}

\* lines 67-80
MacdEnter ==
  /\ Idle
  /\ \E prices \in UNION {[1..n -> PriceValues] : n \in 0..MaxLen} :
     \E p \in MacdPeriods :
       /\ ptr' = prices
       /\ arg' = [fast_period |-> p[1], slow_period |-> p[2], signal_period |-> p[3]]
       /\ buf' = [ema_fast |-> Fill(Len(prices)), ema_slow |-> Fill(Len(prices)),
                  macd |-> Fill(Len(prices)), signal |-> Fill(Len(prices)),
                  histogram |-> Fill(Len(prices))]
       /\ loc' = [alpha_fast |-> Alpha(p[1]), alpha_slow |-> Alpha(p[2]),
                  alpha_signal |-> Alpha(p[3])]
  /\ fn' = "macd"
  /\ ipc' = "macd_first"
  /\ i' = 1
  /\ UNCHANGED <<ptr_y, stray>>
  /\ UNCHANGED xirrVars

\* lines 83-84: element 0 is read and written, whatever n is
MacdFirst ==
  /\ ipc = "macd_first"
  /\ IF Inside(ptr, 0)
     THEN /\ buf' = [buf EXCEPT !.ema_fast[1] = At(ptr, 0), !.ema_slow[1] = At(ptr, 0)]
          /\ ipc' = "macd_ema"
          /\ UNCHANGED <<fn, ptr, ptr_y, arg, loc, i, stray>>
     ELSE \/ Fault
          \/ /\ ipc' = "macd_ema"
             /\ stray' = TRUE
             /\ UNCHANGED <<fn, ptr, ptr_y, arg, buf, loc, i>>
  /\ UNCHANGED xirrVars

\* lines 87-91
MacdEma ==
  /\ ipc = "macd_ema"
  /\ IF i < Len(ptr)
     THEN \E fast \in {Ema(loc.alpha_fast, At(ptr, i), At(buf.ema_fast, i - 1))} :
          \E slow \in {Ema(loc.alpha_slow, At(ptr, i), At(buf.ema_slow, i - 1))} :
            /\ buf' = [buf EXCEPT !.ema_fast[i + 1] = fast, !.ema_slow[i + 1] = slow,
                                  !.macd[i + 1] = FSub(fast, slow)]
            /\ i' = i + 1
            /\ UNCHANGED ipc
     ELSE /\ ipc' = "macd_seed"
          /\ UNCHANGED <<buf, i>>
  /\ UNCHANGED <<fn, ptr, ptr_y, arg, loc, stray>>
  /\ UNCHANGED xirrVars

\* line 94: element slow_period is read and written, whatever n is
MacdSeed ==
  /\ ipc = "macd_seed"
  /\ IF Inside(buf.macd, arg.slow_period)
     THEN /\ buf' = [buf EXCEPT !.signal[arg.slow_period + 1] = At(buf.macd, arg.slow_period)]
          /\ ipc' = "macd_signal"
          /\ i' = arg.slow_period + 1
          /\ UNCHANGED <<fn, ptr, ptr_y, arg, loc, stray>>
     ELSE \/ Fault
          \/ /\ ipc' = "macd_signal"
             /\ i' = arg.slow_period + 1
             /\ stray' = TRUE
             /\ UNCHANGED <<fn, ptr, ptr_y, arg, buf, loc>>
  /\ UNCHANGED xirrVars

\* lines 95-105
MacdSignal ==
  /\ ipc = "macd_signal"
  /\ IF i < Len(ptr)
     THEN \E line \in {Ema(loc.alpha_signal, At(buf.macd, i), At(buf.signal, i - 1))} :
            /\ buf' = [buf EXCEPT !.signal[i + 1] = line,
                                  !.histogram[i + 1] = FSub(At(buf.macd, i), line)]
            /\ i' = i + 1
            /\ UNCHANGED ipc
     ELSE /\ ipc' = "returned"
          /\ UNCHANGED <<buf, i>>
  /\ UNCHANGED <<fn, ptr, ptr_y, arg, loc, stray>>
  /\ UNCHANGED xirrVars

\* ---- calculate_bollinger_bands, lines 115-155 ----

\* lines 130-133: sum holds ptr[i] + ... + ptr[i - j + 1]
RECURSIVE SumFrom(_, _, _, _, _)
SumFrom(v, k, j, period, sum) ==
  IF j >= period \/ ~Done(sum) THEN sum
  ELSE SumFrom(v, k, j + 1, period, FAdd(sum, At(v, k - j)))

\* line 141
Square(diff) == FMul(diff, diff)

\* lines 138-142
RECURSIVE VarianceFrom(_, _, _, _, _, _)
VarianceFrom(v, k, j, period, mean, variance) ==
  IF j >= period \/ ~Done(variance) THEN variance
  ELSE VarianceFrom(v, k, j + 1, period, mean,
                    FAdd(variance, Square(FSub(At(v, k - j), mean))))

\* lines 120-126
BollingerEnter ==
  /\ Idle
  /\ \E prices \in UNION {[1..n -> PriceValues] : n \in 0..MaxLen} :
     \E period \in 1..MaxPeriod :
       /\ ptr' = prices
       /\ arg' = [period |-> period, num_std |-> Two]
       /\ buf' = [middle |-> Fill(Len(prices)), upper |-> Fill(Len(prices)),
                  lower |-> Fill(Len(prices))]
       /\ i' = period - 1
  /\ fn' = "bollinger"
  /\ ipc' = "bollinger_loop"
  /\ loc' = <<>>
  /\ UNCHANGED <<ptr_y, stray>>
  /\ UNCHANGED xirrVars

\* lines 129-154
BollingerStep ==
  /\ ipc = "bollinger_loop"
  /\ IF i < Len(ptr)
     THEN \E mean \in {FDiv(SumFrom(ptr, i, 0, arg.period, Zero), FromInt(arg.period))} :
          \E variance \in {VarianceFrom(ptr, i, 0, arg.period, mean, Zero)} :
          \E std \in {FSqrt(FDiv(variance, FromInt(arg.period)))} :
            /\ buf' = [buf EXCEPT !.middle[i + 1] = mean,
                                  !.upper[i + 1] = FAdd(mean, FMul(arg.num_std, std)),
                                  !.lower[i + 1] = FSub(mean, FMul(arg.num_std, std))]
            /\ i' = i + 1
            /\ UNCHANGED ipc
     ELSE /\ ipc' = "returned"
          /\ UNCHANGED <<buf, i>>
  /\ UNCHANGED <<fn, ptr, ptr_y, arg, loc, stray>>
  /\ UNCHANGED xirrVars

\* ---- rolling_correlation, lines 158-199 ----

\* lines 176-183
AddPoint(s, vx, vy) ==
  [sum_x |-> FAdd(s.sum_x, vx), sum_y |-> FAdd(s.sum_y, vy),
   sum_xx |-> FAdd(s.sum_xx, FMul(vx, vx)), sum_yy |-> FAdd(s.sum_yy, FMul(vy, vy)),
   sum_xy |-> FAdd(s.sum_xy, FMul(vx, vy))]

\* lines 172-184
RECURSIVE SumsFrom(_, _, _, _, _, _)
SumsFrom(x, y, k, j, window, s) ==
  IF j >= window \/ ~Done(s) THEN s
  ELSE SumsFrom(x, y, k, j + 1, window, AddPoint(s, At(x, k - j), At(y, k - j)))

NoSums == [sum_x |-> Zero, sum_y |-> Zero, sum_xx |-> Zero, sum_yy |-> Zero, sum_xy |-> Zero]

\* lines 189-191: (sum_ab / window) - (mean_a * mean_b)
Moment(sum_ab, window, mean_a, mean_b) == FSub(FDiv(sum_ab, window), FMul(mean_a, mean_b))

\* lines 193-195: the entry stays 0.0 unless both deviations are positive
Correlation(cov, std_x, std_y) ==
  IF FGt(std_x, Zero) /\ FGt(std_y, Zero) THEN FDiv(cov, FMul(std_x, std_y)) ELSE Zero

\* lines 163-169
CorrelationEnter ==
  /\ Idle
  /\ \E n \in 0..MaxLen :
     \E x \in [1..n -> XValues], y \in [1..n -> YValues] :
       /\ ptr' = x
       /\ ptr_y' = y
       /\ buf' = [corr |-> Fill(n)]
  /\ \E window \in 1..MaxPeriod :
       /\ arg' = [window |-> window]
       /\ i' = window - 1
  /\ fn' = "correlation"
  /\ ipc' = "correlation_loop"
  /\ loc' = <<>>
  /\ UNCHANGED stray
  /\ UNCHANGED xirrVars

\* lines 171-198
CorrelationStep ==
  /\ ipc = "correlation_loop"
  /\ IF i < Len(ptr)
     THEN \E s \in {SumsFrom(ptr, ptr_y, i, 0, arg.window, NoSums)} :
          \E w \in {FromInt(arg.window)} :
          \E mean_x \in {FDiv(s.sum_x, w)}, mean_y \in {FDiv(s.sum_y, w)} :
          \E cov \in {Moment(s.sum_xy, w, mean_x, mean_y)} :
          \E std_x \in {FSqrt(Moment(s.sum_xx, w, mean_x, mean_x))} :
          \E std_y \in {FSqrt(Moment(s.sum_yy, w, mean_y, mean_y))} :
            /\ buf' = [buf EXCEPT !.corr[i + 1] = Correlation(cov, std_x, std_y)]
            /\ i' = i + 1
            /\ UNCHANGED ipc
     ELSE /\ ipc' = "returned"
          /\ UNCHANGED <<buf, i>>
  /\ UNCHANGED <<fn, ptr, ptr_y, arg, loc, stray>>
  /\ UNCHANGED xirrVars

NoSolve ==
  /\ cashflows = <<>>
  /\ initial_guess = Zero
  /\ pc = "idle"
  /\ rate = Zero
  /\ newton_i = 0
  /\ low = Zero /\ high = Zero /\ npv_low = Zero /\ npv_high = Zero
  /\ binary_i = 0
  /\ result = Zero
  /\ exit = "none"

IndicatorInit == NoCall /\ NoSolve

IndicatorNext ==
  \/ RsiEnter \/ RsiChange \/ RsiSeed \/ RsiWilder
  \/ MacdEnter \/ MacdFirst \/ MacdEma \/ MacdSeed \/ MacdSignal
  \/ BollingerEnter \/ BollingerStep
  \/ CorrelationEnter \/ CorrelationStep

SpecIndicators == IndicatorInit /\ [][IndicatorNext]_vars

(***************************************************************************)
(* Properties of calculate_xirr                                            *)
(***************************************************************************)

\* presentValue at MIN_RATE and at MAX_RATE have the same sign: their product is > 0
SameSignAtBounds ==
  FGt(FMul(calculate_npv(cashflows, MIN_RATE), calculate_npv(cashflows, MAX_RATE)), Zero)

\* the return statements of the Newton loop (lines 72 and 94)
NewtonExits == {"newton_npv", "newton_step"}

\* the return statements of the bisection loop and after it (lines 120, 132, 136)
BinaryExits == {"binary_npv", "binary_width", "exhausted"}

\* C1, as stated: for at least 2 cash flows and any initial guess, if presentValue
\* at -0.999 and at 10.0 have the same sign, calculate_xirr returns NaN.
C1_SameSignReturnsNaN ==
  (pc = "done" /\ Len(cashflows) >= 2 /\ SameSignAtBounds) => IsNaN(result)

\* C1, amended: for at least 2 cash flows and any initial guess, if presentValue
\* at -0.999 and at 10.0 have the same sign and the Newton loop has not returned
\* a rate itself, calculate_xirr returns NaN.
C1_SameSignReturnsNaNAfterNewton ==
  (pc = "done" /\ Len(cashflows) >= 2 /\ SameSignAtBounds /\ exit \notin NewtonExits)
    => IsNaN(result)

\* a call of two or more flows that reached the endpoint test and was rejected by it
C1_Witness ==
  /\ pc = "done" /\ exit = "no_bracket"
  /\ Len(cashflows) >= 2
  /\ SameSignAtBounds
  /\ IsNaN(result)

\* C2: calculate_xirr always terminates; it makes at most 50 passes through the
\* Newton loop, then at most 100 through the bisection loop, and never goes back
\* from the bisection phase to the Newton phase.
C2_Terminates ==
  /\ <>(pc = "done")
  /\ [](newton_i <= MAX_NEWTON_ITERATIONS /\ binary_i <= MAX_BINARY_ITERATIONS)
  /\ [][(pc \in {"binary_init", "binary"}) => (pc' \in {"binary_init", "binary", "done"})]_vars

\* a call that used up all 50 passes of the Newton loop and then returned
C2_Witness == pc = "done" /\ newton_i = MAX_NEWTON_ITERATIONS /\ exit = "no_bracket"

\* C3: once the bisection loop has been entered (the endpoint values do not have
\* the same sign), the 100 passes are never used up and the value returned is a
\* rate, not NaN.
C3_BisectionReturnsRate ==
  /\ pc = "binary" => binary_i < MAX_BINARY_ITERATIONS
  /\ (pc = "done" /\ exit \in BinaryExits) => (~IsNaN(result) /\ exit # "exhausted")

\* a bisection that ran for more than 20 passes and returned the middle of a narrow bracket
C3_Witness ==
  /\ pc = "done" /\ exit = "binary_width"
  /\ binary_i > 20
  /\ ~IsNaN(result)

\* C4: with fewer than 2 cash flows calculate_xirr returns NaN for every initial
\* guess, at the size check: neither the Newton loop nor the bisection is entered.
C4_TooFewReturnsNaN ==
  Len(cashflows) < 2 =>
    /\ pc \in {"start", "done"}
    /\ newton_i = 0 /\ binary_i = 0
    /\ pc = "done" => (IsNaN(result) /\ exit = "too_few")

\* a call with a single cash flow that has returned
C4_Witness == pc = "done" /\ Len(cashflows) = 1 /\ IsNaN(result) /\ exit = "too_few"

\* C8, as stated: at the start of each pass of the bisection loop
\* -0.999 <= low < high <= 10.0, npv_low and npv_high are presentValue at low and
\* at high, and the two do not have the same sign (product <= 0).
C8_BracketKept ==
  pc = "binary" =>
    /\ FLe(MIN_RATE, low) /\ FLt(low, high) /\ FLe(high, MAX_RATE)
    /\ npv_low = calculate_npv(cashflows, low)
    /\ npv_high = calculate_npv(cashflows, high)
    /\ ~FGt(FMul(npv_low, npv_high), Zero)

\* C10: every value other than NaN that calculate_xirr returns lies in
\* [-0.999, 10.0], whichever return statement returns it and whatever the guess.
C10_ReturnedRateInBounds ==
  (pc = "done" /\ ~IsNaN(result)) => (FLe(MIN_RATE, result) /\ FLe(result, MAX_RATE))

\* a rate returned by the Newton loop for an initial guess above MAX_RATE
C10_Witness ==
  /\ pc = "done" /\ exit \in NewtonExits
  /\ ~IsNaN(result)
  /\ FGt(initial_guess, MAX_RATE)

(***************************************************************************)
(* Properties of the indicators                                            *)
(***************************************************************************)

\* C5, as stated: each indicator, for every n >= 0 and every lookback w >= 1,
\* touches only elements 0..n-1 of its arrays and vectors, and returns vectors of
\* n entries whose entries below index w - 1 are zero (w is period for
\* calculate_rsi and calculate_bollinger_bands, window for rolling_correlation,
\* slow_period for the signal and histogram of calculate_macd).
C5_InsideAndAligned ==
  /\ ~stray
  /\ ipc # "fault"
  /\ (ipc = "returned" /\ fn = "rsi") =>
       /\ Len(buf.rsi) = Len(ptr)
       /\ \A k \in 0..(Len(ptr) - 1) : k < arg.period - 1 => IsZero(At(buf.rsi, k))
  /\ (ipc = "returned" /\ fn = "macd") =>
       /\ Len(buf.macd) = Len(ptr) /\ Len(buf.signal) = Len(ptr)
       /\ Len(buf.histogram) = Len(ptr)
       /\ \A k \in 0..(Len(ptr) - 1) :
            k < arg.slow_period - 1 => (IsZero(At(buf.signal, k)) /\ IsZero(At(buf.histogram, k)))
  /\ (ipc = "returned" /\ fn = "bollinger") =>
       /\ Len(buf.middle) = Len(ptr) /\ Len(buf.upper) = Len(ptr) /\ Len(buf.lower) = Len(ptr)
       /\ \A k \in 0..(Len(ptr) - 1) :
            k < arg.period - 1 =>
              (IsZero(At(buf.middle, k)) /\ IsZero(At(buf.upper, k)) /\ IsZero(At(buf.lower, k)))
  /\ (ipc = "returned" /\ fn = "correlation") =>
       /\ Len(buf.corr) = Len(ptr)
       /\ \A k \in 0..(Len(ptr) - 1) : k < arg.window - 1 => IsZero(At(buf.corr, k))

\* C6: for n > period and period >= 1 every entry of the rsi vector lies in
\* [0, 100], and avg_gain and avg_loss are never negative.
C6_RsiInRange ==
  (fn = "rsi" /\ Len(ptr) > arg.period) =>
    /\ \A k \in 0..(Len(ptr) - 1) :
         FLe(Zero, At(buf.rsi, k)) /\ FLe(At(buf.rsi, k), FromInt(100))
    /\ FLe(Zero, loc.avg_gain) /\ FLe(Zero, loc.avg_loss)

\* a returned rsi vector, n > period, with a value strictly between 0 and 100
\* behind which both averages are positive
C6_Witness ==
  /\ fn = "rsi" /\ ipc = "returned"
  /\ Len(ptr) > arg.period
  /\ FGt(loc.avg_gain, Zero) /\ FGt(loc.avg_loss, Zero)
  /\ \E k \in 0..(Len(ptr) - 1) :
       FGt(At(buf.rsi, k), Zero) /\ FLt(At(buf.rsi, k), FromInt(100))

\* C7, as stated: for equal-length x and y and any window >= 1, every entry of
\* the vector rolling_correlation fills lies in [-1, 1].
C7_CorrelationInRange ==
  fn = "correlation" =>
    \A k \in 0..(Len(buf.corr) - 1) :
      FLe(FNeg(One), At(buf.corr, k)) /\ FLe(At(buf.corr, k), One)

\* C9, as stated: for n > period, the averages behind rsi[period] are the simple
\* means of the gains and losses of changes 1..period; the Wilder update is
\* applied from index period + 1 on only.
C9_SeedBehindFirstValue ==
  (fn = "rsi" /\ ipc = "rsi_wilder" /\ Len(ptr) > arg.period /\ i = arg.period + 1) =>
    /\ loc.avg_gain = SeedMean(buf.gains, arg.period)
    /\ loc.avg_loss = SeedMean(buf.losses, arg.period)
    /\ At(buf.rsi, arg.period) =
         RsiValue(SeedMean(buf.gains, arg.period), SeedMean(buf.losses, arg.period))

====
